---- MODULE Spec2Model ----
(***************************************************************************)
(* Model of examples/kvdb.rs: a key-value database updated through a web   *)
(* form.  One HashMap<String, String> behind a futures::lock::Mutex is     *)
(* shared by every invocation of the async handler `process`.              *)
(*                                                                         *)
(* Each task is one slot in which the server runs `process` for a request. *)
(* The steps of a task are cut at the await points of `process` and at the *)
(* boundaries of its critical sections, since tokio's multi-threaded       *)
(* runtime runs the tasks in parallel.                                     *)
(***************************************************************************)
EXTENDS Integers, Sequences, FiniteSets, TLC

\* Number of handler invocations that may be in flight at the same time.
NumTasks == 2

Tasks == 1..NumTasks

\* Option<T>: None is the empty sequence, Some(x) the one-element sequence.
None == <<>>
Some(x) == <<x>>

\* Strings used as keys and values of form fields.
KeyStrings == {"a", "b"}
ValueStrings == {"1", "2"}

\* Values of the "action" field that requests carry.
ActionStrings == {"GET", "POST", "PUT", "DELETE", "get", ""}

\* static MISSING_KEY / MISSING_VALUE and the two literal bodies.
MISSING_KEY == "Missing 'key' field"
MISSING_VALUE == "Missing 'value' field"
INCORRECT_ACTION == "Incorrect value for parameter 'action'"
ONLY_SUPPORTS == "Only supports POST, GET, and DELETE"

\* StatusCode values used by process.
OK == 200
METHOD_NOT_ALLOWED == 405
UNPROCESSABLE_ENTITY == 422

(***************************************************************************)
(* Request bodies.  A body is the sequence of (name, value) pairs that     *)
(* form_urlencoded::parse yields.                                          *)
(***************************************************************************)
Pair(name, value) == <<name, value>>

\* The body holding the given optional fields, in the order action, key, value.
MkBody(action, key, value) ==
    (IF action = None THEN <<>> ELSE <<Pair("action", action[1])>>)
    \o (IF key = None THEN <<>> ELSE <<Pair("key", key[1])>>)
    \o (IF value = None THEN <<>> ELSE <<Pair("value", value[1])>>)

Opt(S) == {None} \cup {Some(x) : x \in S}

\* Every combination of present/absent action, key and value.
AllBodies ==
    {MkBody(a, k, v) : a \in Opt(ActionStrings), k \in Opt(KeyStrings),
                       v \in Opt(ValueStrings)}

\* The bodies sent by concurrent clients: a list, inserts of different keys,
\* a delete and a rejected request.
ConcBodies ==
    { MkBody(None, None, None),
      MkBody(Some("POST"), Some("a"), Some("1")),
      MkBody(Some("POST"), Some("b"), Some("1")),
      MkBody(Some("DELETE"), Some("a"), None),
      MkBody(Some("POST"), Some("a"), None) }

\* The bodies sent by concurrent clients whose requests all take the lock
\* twice: an insert and a delete.
FairBodies ==
    { MkBody(Some("POST"), Some("a"), Some("1")),
      MkBody(Some("DELETE"), Some("a"), None) }

\* The bodies sent by concurrent clients that write the same key: a list,
\* inserts of two values and a delete.
SameKeyBodies ==
    { MkBody(Some("GET"), None, None),
      MkBody(Some("POST"), Some("a"), Some("1")),
      MkBody(Some("POST"), Some("a"), Some("2")),
      MkBody(Some("DELETE"), Some("a"), None) }

\* The bodies of the client that tries every HTTP method: each operation
\* and each kind of early return.
VerbBodies ==
    { MkBody(None, None, None),
      MkBody(Some("POST"), Some("a"), Some("1")),
      MkBody(Some("POST"), Some("b"), Some("1")),
      MkBody(Some("DELETE"), Some("a"), None),
      MkBody(Some("PUT"), Some("a"), Some("1")),
      MkBody(Some("POST"), None, Some("1")),
      MkBody(Some("get"), None, None) }

\* The bodies of a client that sends keys and values at the edges: the
\* empty string as key or as value, a value that is itself the opening of a
\* table row, and inserts that lack the key or the value.
EdgeBodies ==
    { MkBody(None, None, None),
      MkBody(Some("POST"), Some(""), Some("1")),
      MkBody(Some("POST"), Some("a"), Some("")),
      MkBody(Some("POST"), Some("a"), Some("1")),
      MkBody(Some("POST"), Some("b"), Some("<tr><form method=\"POST\">")),
      MkBody(Some("DELETE"), Some(""), None),
      MkBody(Some("DELETE"), Some("a"), None),
      MkBody(Some("POST"), Some(""), None),
      MkBody(Some("POST"), None, Some("")) }

\* .collect::<HashMap<String, String>>(): a later pair replaces an earlier
\* pair of the same name.
EmptyMap == [n \in {} |-> ""]

RECURSIVE collect(_)
collect(pairs) ==
    IF pairs = <<>> THEN EmptyMap
    ELSE LET rest == collect(SubSeq(pairs, 1, Len(pairs) - 1))
             p == pairs[Len(pairs)]
         IN  [n \in (DOMAIN rest) \cup {p[1]} |->
                 IF n = p[1] THEN p[2] ELSE rest[n]]

\* HashMap::get
Get(map, name) == IF name \in DOMAIN map THEN Some(map[name]) ELSE None

(***************************************************************************)
(* HTML.  A string built by format! is the sequence of its pieces: the     *)
(* literal parts of the format string and the interpolated arguments.      *)
(***************************************************************************)
make_row(method, key, value) ==
    LET button == CASE method = "POST" -> "Insert"
                    [] method = "DELETE" -> "Delete"
                    [] OTHER -> "Unsupported"
        key_field == IF key # None
                     THEN <<"<input type=\"hidden\", name=\"key\" value=\"",
                            key[1], "\">", key[1]>>
                     ELSE <<"<input type=\"text\" name=\"key\">">>
        value_field == IF value # None
                       THEN <<value[1]>>
                       ELSE <<"<input type=\"text\" name=\"value\">">>
        cells == (<<"<td>">> \o key_field \o <<"</td>">>)
                 \o (<<"<td>">> \o value_field \o <<"</td>">>)
                 \o <<"<td><input type=\"submit\" value=\"", button, "\"></td>">>
    IN  <<"<tr><form method=\"POST\">">> \o cells
        \o <<"<input type=\"hidden\" name=\"action\" value=\"", method,
             "\"></form></tr>">>

\* .map(|(key, value)| make_row(Method::DELETE, Some(key), Some(value)))
\* .collect::<Vec<String>>().join(""), visiting the keys in the given order.
RECURSIVE rows(_, _)
rows(map, order) ==
    IF order = <<>> THEN <<>>
    ELSE make_row("DELETE", Some(Head(order)), Some(map[Head(order)]))
         \o rows(map, Tail(order))

\* The document of the 200 response.
table(map, order) ==
    <<"<html><body><table>">> \o rows(map, order)
    \o make_row("POST", None, None) \o <<"</table></body></html>">>

(***************************************************************************)
(* What `process` returns.                                                 *)
(***************************************************************************)
Pending == [result |-> "pending", status |-> 0, body |-> <<>>]
Err == [result |-> "Err", status |-> 0, body |-> <<>>]
Ok(status, text) == [result |-> "Ok", status |-> status, body |-> text]

\* A match without the arm for "PUT": it falls to the catch-all arm.
method_without_put(params) ==
    LET action == Get(params, "action")
    IN  CASE action = Some("GET") -> Some("GET")
          [] action = None -> Some("GET")
          [] action = Some("DELETE") -> Some("DELETE")
          [] action = Some("POST") -> Some("POST")
          [] OTHER -> None

\* A match that also accepts the lower-case "get".
method_ignoring_case(params) ==
    LET action == Get(params, "action")
    IN  CASE action = Some("GET") \/ action = Some("get") -> Some("GET")
          [] action = None -> Some("GET")
          [] action = Some("PUT") -> Some("PUT")
          [] action = Some("DELETE") -> Some("DELETE")
          [] action = Some("POST") -> Some("POST")
          [] OTHER -> None

\* A match without the arm for an absent action: it takes the method from
\* the presence of a key instead.
method_from_fields(params) ==
    LET action == Get(params, "action")
    IN  CASE action = Some("GET") -> Some("GET")
          [] action = None ->
               (IF Get(params, "key") = None THEN Some("GET") ELSE Some("POST"))
          [] action = Some("PUT") -> Some("PUT")
          [] action = Some("DELETE") -> Some("DELETE")
          [] action = Some("POST") -> Some("POST")
          [] OTHER -> None

\* The match on params.get("action"): Some(method), or None for the
\* catch-all arm that returns 422.
method(params) ==
    LET action == Get(params, "action")
    IN  CASE action = Some("GET") -> Some("GET")
          [] action = None -> Some("GET")
          [] action = Some("PUT") -> Some("PUT")
          [] action = Some("DELETE") -> Some("DELETE")
          [] action = Some("POST") -> Some("POST")
          [] OTHER -> None

\* A match that takes an empty key or value for a missing one.
dispatch_empty_is_missing(params) ==
    LET m == method(params)
        key == IF Get(params, "key") = Some("") THEN None
               ELSE Get(params, "key")
        value == IF Get(params, "value") = Some("") THEN None
                 ELSE Get(params, "value")
        return(r) == [return |-> TRUE, resp |-> r, pc |-> "done"]
        goto(l) == [return |-> FALSE, resp |-> Pending, pc |-> l]
    IN  CASE m = None ->
               return(Ok(UNPROCESSABLE_ENTITY, <<INCORRECT_ACTION>>))
          [] m = Some("GET") -> goto("lock_iter")
          [] m = Some("POST") ->
               (CASE key # None /\ value # None -> goto("lock_insert")
                  [] key = None ->
                       return(Ok(UNPROCESSABLE_ENTITY, <<MISSING_KEY>>))
                  [] OTHER ->
                       return(Ok(UNPROCESSABLE_ENTITY, <<MISSING_VALUE>>)))
          [] m = Some("DELETE") ->
               (CASE key # None -> goto("lock_remove")
                  [] OTHER ->
                       return(Ok(UNPROCESSABLE_ENTITY, <<MISSING_KEY>>)))
          [] OTHER ->
               return(Ok(METHOD_NOT_ALLOWED, <<ONLY_SUPPORTS>>))

\* A match on (key, value) that looks at the value first.
dispatch_value_first(params) ==
    LET m == method(params)
        key == Get(params, "key")
        value == Get(params, "value")
        return(r) == [return |-> TRUE, resp |-> r, pc |-> "done"]
        goto(l) == [return |-> FALSE, resp |-> Pending, pc |-> l]
    IN  CASE m = None ->
               return(Ok(UNPROCESSABLE_ENTITY, <<INCORRECT_ACTION>>))
          [] m = Some("GET") -> goto("lock_iter")
          [] m = Some("POST") ->
               (CASE key # None /\ value # None -> goto("lock_insert")
                  [] value = None ->
                       return(Ok(UNPROCESSABLE_ENTITY, <<MISSING_VALUE>>))
                  [] OTHER ->
                       return(Ok(UNPROCESSABLE_ENTITY, <<MISSING_KEY>>)))
          [] m = Some("DELETE") ->
               (CASE key # None -> goto("lock_remove")
                  [] OTHER ->
                       return(Ok(UNPROCESSABLE_ENTITY, <<MISSING_KEY>>)))
          [] OTHER ->
               return(Ok(METHOD_NOT_ALLOWED, <<ONLY_SUPPORTS>>))

\* A match whose DELETE arm does not check the key: a request without one
\* goes on to the table.
dispatch_delete_unchecked(params) ==
    LET m == method(params)
        key == Get(params, "key")
        value == Get(params, "value")
        return(r) == [return |-> TRUE, resp |-> r, pc |-> "done"]
        goto(l) == [return |-> FALSE, resp |-> Pending, pc |-> l]
    IN  CASE m = None ->
               return(Ok(UNPROCESSABLE_ENTITY, <<INCORRECT_ACTION>>))
          [] m = Some("GET") -> goto("lock_iter")
          [] m = Some("POST") ->
               (CASE key # None /\ value # None -> goto("lock_insert")
                  [] key = None ->
                       return(Ok(UNPROCESSABLE_ENTITY, <<MISSING_KEY>>))
                  [] OTHER ->
                       return(Ok(UNPROCESSABLE_ENTITY, <<MISSING_VALUE>>)))
          [] m = Some("DELETE") ->
               (CASE key # None -> goto("lock_remove")
                  [] OTHER -> goto("lock_iter"))
          [] OTHER ->
               return(Ok(METHOD_NOT_ALLOWED, <<ONLY_SUPPORTS>>))

\* The match on the method up to its first lock().await: either the early
\* return of a response, or the lock the task goes on to wait for.
dispatch(params) ==
    LET m == method(params)
        key == Get(params, "key")
        value == Get(params, "value")
        return(r) == [return |-> TRUE, resp |-> r, pc |-> "done"]
        goto(l) == [return |-> FALSE, resp |-> Pending, pc |-> l]
    IN  CASE m = None ->
               return(Ok(UNPROCESSABLE_ENTITY, <<INCORRECT_ACTION>>))
          [] m = Some("GET") -> goto("lock_iter")
          [] m = Some("POST") ->
               (CASE key # None /\ value # None -> goto("lock_insert")
                  [] key = None ->
                       return(Ok(UNPROCESSABLE_ENTITY, <<MISSING_KEY>>))
                  [] OTHER ->
                       return(Ok(UNPROCESSABLE_ENTITY, <<MISSING_VALUE>>)))
          [] m = Some("DELETE") ->
               (CASE key # None -> goto("lock_remove")
                  [] OTHER ->
                       return(Ok(UNPROCESSABLE_ENTITY, <<MISSING_KEY>>)))
          [] OTHER ->
               return(Ok(METHOD_NOT_ALLOWED, <<ONLY_SUPPORTS>>))

\* An insert into a copy of the map: the shared map keeps its contents.
insert_into_clone(map, key, value) == map

\* An insert that keeps the value of a key the map already holds.
insert_or_keep(map, key, value) ==
    [k \in (DOMAIN map) \cup {key} |-> IF k \in DOMAIN map THEN map[k] ELSE value]

\* HashMap::insert and HashMap::remove.
insert(map, key, value) ==
    [k \in (DOMAIN map) \cup {key} |-> IF k = key THEN value ELSE map[k]]

\* A remove that looks the key up and leaves the map as it is.
remove_lookup_only(map, key) == map

\* A remove that empties the map when the key is absent.
remove_absent_clears(map, key) ==
    IF key \in DOMAIN map THEN [k \in (DOMAIN map) \ {key} |-> map[k]]
    ELSE EmptyMap

remove(map, key) == [k \in (DOMAIN map) \ {key} |-> map[k]]

VARIABLES
    database,   \* the shared HashMap<String, String>
    locked,     \* whether the Mutex is held (a MutexGuard is alive)
    pc,         \* pc[t]: where task t stands in `process`
    body,       \* body[t]: the request body task t was called with
    verb,       \* verb[t]: the HTTP method of the request of task t
    resp,       \* resp[t]: what `process` returned in task t
    acc,        \* acc[t]: the entries the iterator of task t has yielded
    effect,     \* history: what became of the mutation task t applied
    written,    \* history: the inserts applied since the last remove
    trail,      \* history: the last requests of the one-at-a-time client
    last        \* history: the last request that client got an answer to

vars ==
    <<database, locked, pc, body, verb, resp, acc, effect, written, trail, last>>

history == <<effect, written, trail, last>>

\* The decoded form fields of the request in task t (lines 60-62).
params(t) == collect(body[t])

\* What a request asks of the database, as the trail records it.
Op(b) ==
    LET d == dispatch(collect(b))
    IN  CASE d.pc = "lock_insert" ->
               <<"insert", collect(b)["key"], collect(b)["value"]>>
          [] d.pc = "lock_remove" -> <<"remove", collect(b)["key"]>>
          [] d.pc = "lock_iter" -> <<"iter">>
          [] OTHER -> <<"return">>

\* The trail holds the last three requests of the one-at-a-time client,
\* the latest last: what each asked for and the database it arrived at.
NoEntry == [op |-> <<"none">>, before |-> EmptyMap]

\* No request has been answered yet.
NoLast ==
    [verb |-> "", body |-> <<>>, before |-> EmptyMap, resp |-> Pending,
     after |-> EmptyMap]

\* main, line 143: the database starts empty; no request is in flight.
Init ==
    /\ database = EmptyMap
    /\ locked = FALSE
    /\ pc = [t \in Tasks |-> "idle"]
    /\ body = [t \in Tasks |-> <<>>]
    /\ verb = [t \in Tasks |-> ""]
    /\ resp = [t \in Tasks |-> Pending]
    /\ acc = [t \in Tasks |-> <<>>]
    /\ effect = [t \in Tasks |-> "none"]
    /\ written = EmptyMap
    /\ trail = <<NoEntry, NoEntry, NoEntry>>
    /\ last = NoLast

\* The HTTP methods a request may come with; the forms of the table are
\* sent with POST (line 47).
Methods == {"GET", "POST", "PUT", "DELETE"}

\* service_fn, line 146: the server calls process(database.clone(), req)
\* for a request with method m and body b, which starts to read the body
\* (line 59).
call(t, m, b) ==
    /\ pc[t] = "idle"
    /\ pc' = [pc EXCEPT ![t] = "to_bytes"]
    /\ body' = [body EXCEPT ![t] = b]
    /\ verb' = [verb EXCEPT ![t] = m]
    /\ UNCHANGED <<database, locked, resp, acc, effect, written>>

\* A client among several concurrent ones submits a form.
Arrive(t, b) ==
    /\ call(t, "POST", b)
    /\ UNCHANGED <<trail, last>>

\* The one-at-a-time client sends its next request, with any method, after
\* the response to the previous one.
ArriveVerb(t, m, b) ==
    /\ \A u \in Tasks : pc[u] = "idle"
    /\ call(t, m, b)
    /\ trail' = <<trail[2], trail[3], [op |-> Op(b), before |-> database]>>
    /\ UNCHANGED last

\* The one-at-a-time client submits a form.
ArriveSeq(t, b) == ArriveVerb(t, "POST", b)

\* Line 59: hyper::body::to_bytes(req).await fails and `?` returns the error.
ReadFail(t) ==
    /\ pc[t] = "to_bytes"
    /\ pc' = [pc EXCEPT ![t] = "done"]
    /\ resp' = [resp EXCEPT ![t] = Err]
    /\ UNCHANGED <<database, locked, body, verb, acc, history>>

\* A handler that takes the action from the HTTP method of the request when
\* the body has no action field.
Dispatch_by_verb(t) ==
    /\ pc[t] = "to_bytes"
    /\ LET fields == IF "action" \in DOMAIN params(t) THEN params(t)
                     ELSE [n \in (DOMAIN params(t)) \cup {"action"} |->
                             IF n = "action" THEN verb[t] ELSE params(t)[n]]
           d == dispatch(fields)
       IN  /\ pc' = [pc EXCEPT ![t] = d.pc]
           /\ resp' = [resp EXCEPT ![t] = d.resp]
    /\ UNCHANGED <<database, locked, body, verb, acc, history>>

\* A handler that writes an insert into the map as soon as the fields are
\* checked, before it waits for the lock.
Dispatch_early_insert(t) ==
    /\ pc[t] = "to_bytes"
    /\ LET d == dispatch(params(t))
       IN  /\ pc' = [pc EXCEPT ![t] = d.pc]
           /\ resp' = [resp EXCEPT ![t] = d.resp]
           /\ database' = IF d.pc = "lock_insert"
                          THEN insert(database, params(t)["key"],
                                      params(t)["value"])
                          ELSE database
    /\ UNCHANGED <<locked, body, verb, acc, history>>

\* Lines 59-123: the body is read and decoded, the action resolved and the
\* fields checked; the task returns a response or reaches a lock().await.
Dispatch(t) ==
    /\ pc[t] = "to_bytes"
    /\ LET d == dispatch(params(t))
       IN  /\ pc' = [pc EXCEPT ![t] = d.pc]
           /\ resp' = [resp EXCEPT ![t] = d.resp]
    /\ UNCHANGED <<database, locked, body, verb, acc, history>>

\* Where a task stands once the lock it waits for is acquired.
Locked(l) ==
    CASE l = "lock_insert" -> "insert"
      [] l = "lock_remove" -> "remove"
      [] l = "lock_iter" -> "iter"

Waiting == {"lock_insert", "lock_remove", "lock_iter"}
Critical == {"insert", "remove", "iter"}

\* A lock that is granted whether or not the Mutex is held.
lock_unguarded(t) ==
    /\ pc[t] \in Waiting
    /\ locked' = TRUE
    /\ pc' = [pc EXCEPT ![t] = Locked(pc[t])]
    /\ UNCHANGED <<database, body, verb, resp, acc, history>>

\* database.lock().await (lines 85-87, 107, 127-129) completes: the Mutex
\* was free and the task now holds its MutexGuard.
lock(t) ==
    /\ pc[t] \in Waiting
    /\ ~locked
    /\ locked' = TRUE
    /\ pc' = [pc EXCEPT ![t] = Locked(pc[t])]
    /\ UNCHANGED <<database, body, verb, resp, acc, history>>

\* The tasks other than t whose applied mutation of the key is still the
\* last one on that key.
Standing(t, key) ==
    {u \in Tasks \ {t} : effect[u] = "applied" /\ params(u)["key"] = key}

\* An insert whose guard is bound to a variable and lives on to the end of
\* the function.
Insert_guard_kept(t) ==
    /\ pc[t] = "insert"
    /\ LET key == params(t)["key"]
           value == params(t)["value"]
       IN  /\ database' = insert(database, key, value)
           /\ effect' = [u \in Tasks |->
                 IF u = t THEN "applied"
                 ELSE IF u \in Standing(t, key) THEN "overwritten"
                 ELSE effect[u]]
           /\ written' = [k \in (DOMAIN written) \cup {key} |->
                             IF k = key THEN value ELSE written[k]]
    /\ pc' = [pc EXCEPT ![t] = "lock_iter"]
    /\ UNCHANGED <<locked, body, verb, resp, acc, trail, last>>

\* Line 88: .insert(key.to_string(), value.to_string()); the guard is
\* dropped at the end of the statement.
Insert(t) ==
    /\ pc[t] = "insert"
    /\ LET key == params(t)["key"]
           value == params(t)["value"]
       IN  /\ database' = insert(database, key, value)
           /\ effect' = [u \in Tasks |->
                 IF u = t THEN "applied"
                 ELSE IF u \in Standing(t, key) THEN "overwritten"
                 ELSE effect[u]]
           /\ written' = [k \in (DOMAIN written) \cup {key} |->
                             IF k = key THEN value ELSE written[k]]
    /\ locked' = FALSE
    /\ pc' = [pc EXCEPT ![t] = "lock_iter"]
    /\ UNCHANGED <<body, verb, resp, acc, trail, last>>

\* A remove whose guard is bound to a variable and lives on to the end of
\* the function.
Remove_guard_kept(t) ==
    /\ pc[t] = "remove"
    /\ LET key == params(t)["key"]
       IN  /\ database' = remove(database, key)
           /\ effect' = [u \in Tasks |->
                 IF u = t THEN "applied"
                 ELSE IF u \in Standing(t, key) THEN "removed"
                 ELSE effect[u]]
    /\ written' = EmptyMap
    /\ pc' = [pc EXCEPT ![t] = "lock_iter"]
    /\ UNCHANGED <<locked, body, verb, resp, acc, trail, last>>

\* Line 107: .remove(&key.to_string()); the guard is dropped at the end of
\* the statement.
Remove(t) ==
    /\ pc[t] = "remove"
    /\ LET key == params(t)["key"]
       IN  /\ database' = remove(database, key)
           /\ effect' = [u \in Tasks |->
                 IF u = t THEN "applied"
                 ELSE IF u \in Standing(t, key) THEN "removed"
                 ELSE effect[u]]
    /\ written' = EmptyMap
    /\ locked' = FALSE
    /\ pc' = [pc EXCEPT ![t] = "lock_iter"]
    /\ UNCHANGED <<body, verb, resp, acc, trail, last>>

\* The keys the iterator of task t has yielded.
Yielded(t) == {acc[t][i][1] : i \in DOMAIN acc[t]}

\* Lines 130-131: .iter() yields one more entry of the map, in an order of
\* its own, and .map() takes the key and the value it holds.
Iterate(t) ==
    /\ pc[t] = "iter"
    /\ \E key \in (DOMAIN database) \ Yielded(t) :
          acc' = [acc EXCEPT ![t] = Append(@, <<key, database[key]>>)]
    /\ UNCHANGED <<database, locked, pc, body, verb, resp, history>>

\* The entries as a map, and the order they were yielded in.
Entries(pairs) ==
    [k \in {pairs[i][1] : i \in DOMAIN pairs} |->
        pairs[CHOOSE i \in DOMAIN pairs : pairs[i][1] = k][2]]
KeyOrder(pairs) == [i \in DOMAIN pairs |-> pairs[i][1]]

\* Lines 125-135: the iterator is exhausted, the rows are joined into the
\* document, the guard is dropped and the 200 response returned.
Render(t) ==
    /\ pc[t] = "iter"
    /\ (DOMAIN database) \ Yielded(t) = {}
    /\ resp' = [resp EXCEPT ![t] =
                   Ok(OK, table(Entries(acc[t]), KeyOrder(acc[t])))]
    /\ acc' = [acc EXCEPT ![t] = <<>>]
    /\ locked' = FALSE
    /\ pc' = [pc EXCEPT ![t] = "done"]
    /\ UNCHANGED <<database, body, verb, history>>

\* The server has sent what process returned, or has dropped the future;
\* the task is over.
retire(t) ==
    /\ pc[t] \in {"done", "dropped"}
    /\ pc' = [pc EXCEPT ![t] = "idle"]
    /\ body' = [body EXCEPT ![t] = <<>>]
    /\ verb' = [verb EXCEPT ![t] = ""]
    /\ resp' = [resp EXCEPT ![t] = Pending]
    /\ effect' = [effect EXCEPT ![t] = "none"]
    /\ UNCHANGED <<database, locked, acc, written, trail>>

Complete(t) ==
    /\ retire(t)
    /\ UNCHANGED last

\* The one-at-a-time client has its answer and keeps it to compare the next
\* answer with.
Reply(t) ==
    /\ pc[t] = "done"
    /\ retire(t)
    /\ last' = [verb |-> verb[t], body |-> body[t], before |-> trail[3].before,
                resp |-> resp[t], after |-> database]

\* The connection is dropped while the task is suspended at an await: the
\* future is dropped where it stands.
Abandon(t) ==
    /\ pc[t] \in {"to_bytes"} \cup Waiting
    /\ pc' = [pc EXCEPT ![t] = "dropped"]
    /\ body' = [body EXCEPT ![t] = <<>>]
    /\ verb' = [verb EXCEPT ![t] = ""]
    /\ effect' = [effect EXCEPT ![t] = "none"]
    /\ UNCHANGED <<database, locked, resp, acc, written, trail, last>>

\* Requests of several clients, handled concurrently.
Next ==
    \E t \in Tasks :
        \/ \E b \in ConcBodies : Arrive(t, b)
        \/ ReadFail(t)
        \/ Dispatch(t)
        \/ lock(t)
        \/ Insert(t)
        \/ Remove(t)
        \/ Iterate(t)
        \/ Render(t)
        \/ Complete(t)
        \/ Abandon(t)

Spec == Init /\ [][Next]_vars

\* Requests of several clients that write the same key, handled
\* concurrently.
SameKeyNext ==
    \E t \in Tasks :
        \/ \E b \in SameKeyBodies : Arrive(t, b)
        \/ ReadFail(t)
        \/ Dispatch(t)
        \/ lock(t)
        \/ Insert(t)
        \/ Remove(t)
        \/ Iterate(t)
        \/ Render(t)
        \/ Complete(t)
        \/ Abandon(t)

SameKeySpec == Init /\ [][SameKeyNext]_vars

\* Requests of one client that waits for each response before it sends the
\* next request.
SeqNext ==
    \E t \in Tasks :
        \/ \E b \in AllBodies : ArriveSeq(t, b)
        \/ Dispatch(t)
        \/ lock(t)
        \/ Insert(t)
        \/ Remove(t)
        \/ Iterate(t)
        \/ Render(t)
        \/ Complete(t)

SeqSpec == Init /\ [][SeqNext]_vars

\* Requests of one client that sends the same forms with any HTTP method
\* and compares each answer with the one before.
VerbNext ==
    \E t \in Tasks :
        \/ \E m \in Methods : \E b \in VerbBodies : ArriveVerb(t, m, b)
        \/ Dispatch(t)
        \/ lock(t)
        \/ Insert(t)
        \/ Remove(t)
        \/ Iterate(t)
        \/ Render(t)
        \/ Reply(t)

VerbSpec == Init /\ [][VerbNext]_vars

\* Requests of several clients, handled concurrently by a runtime that
\* polls every task that can run (the steps made while the lock is held
\* need nothing but the worker thread) and a Mutex that hands the lock over
\* fairly: a task that waits is not passed over for ever.
FairNext ==
    \E t \in Tasks :
        \/ \E b \in FairBodies : Arrive(t, b)
        \/ Dispatch(t)
        \/ lock(t)
        \/ Insert(t)
        \/ Remove(t)
        \/ Iterate(t)
        \/ Render(t)
        \/ Complete(t)
        \/ Abandon(t)

FairSpec ==
    /\ Init
    /\ [][FairNext]_vars
    /\ \A t \in Tasks :
          /\ SF_vars(lock(t))
          /\ WF_vars(Insert(t))
          /\ WF_vars(Remove(t))
          /\ WF_vars(Iterate(t))
          /\ WF_vars(Render(t))

\* Requests of one client that sends keys and values at the edges.
EdgeNext ==
    \E t \in Tasks :
        \/ \E b \in EdgeBodies : ArriveSeq(t, b)
        \/ Dispatch(t)
        \/ lock(t)
        \/ Insert(t)
        \/ Remove(t)
        \/ Iterate(t)
        \/ Render(t)
        \/ Complete(t)

EdgeSpec == Init /\ [][EdgeNext]_vars

(***************************************************************************)
(* Reading a response.                                                     *)
(***************************************************************************)
\* Whether the piece occurs in the text at position i.
StartsAt(text, i, piece) ==
    /\ i + Len(piece) - 1 <= Len(text)
    /\ SubSeq(text, i, i + Len(piece) - 1) = piece

Count(text, piece) ==
    Cardinality({i \in 1..Len(text) : StartsAt(text, i, piece)})

\* The cells of a table row that shows an entry: the key, and the value.
KeyCell(k) ==
    <<"<td>", "<input type=\"hidden\", name=\"key\" value=\"", k, "\">", k,
      "</td>">>
ValueCell(v) == <<"<td>", v, "</td>">>

\* How many rows of the text show the entry (k, v); how many show the key k.
Shows(text, k, v) == Count(text, KeyCell(k) \o ValueCell(v))
ShowsKey(text, k) == Count(text, KeyCell(k))

\* Task t has returned a 200 response.
Responded(t) == pc[t] = "done" /\ resp[t].result = "Ok" /\ resp[t].status = OK

\* Task t is about to return its table: the step Render(t).
Renders(t) == pc[t] = "iter" /\ pc'[t] = "done"

\* The request of task t is an Insert / a Delete of key k.
IsInsert(t) == Op(body[t])[1] = "insert"
IsDelete(t) == Op(body[t])[1] = "remove"
KeyOf(t) == Op(body[t])[2]
ValueOf(t) == Op(body[t])[3]

(***************************************************************************)
(* C1.  At most one handler invocation is inside a critical section on the *)
(* database (the insert, the remove, or the iteration that renders the     *)
(* table) at any time.                                                     *)
(***************************************************************************)
C1_MutualExclusion ==
    /\ Cardinality({t \in Tasks : pc[t] \in Critical}) <= 1
    /\ (\E t \in Tasks : pc[t] \in Critical) => locked

\* One task is rendering while another waits to insert.
C1_Witness ==
    \E t, u \in Tasks : pc[t] = "iter" /\ pc[u] = "lock_insert"

(***************************************************************************)
(* C2.  Two inserts of different keys both stay in the database whatever   *)
(* their interleaving: once both have responded, and as long as no later   *)
(* delete or insert of either key has taken effect, the database holds     *)
(* both entries, and every table rendered while both inserts stand shows   *)
(* both.                                                                   *)
(***************************************************************************)
\* The inserts that have taken effect and that no later mutation of the
\* same key has followed.
StandingInserts == {t \in Tasks : IsInsert(t) /\ effect[t] = "applied"}

C2_BothStored ==
    \A t1, t2 \in Tasks :
        (/\ Responded(t1) /\ Responded(t2)
         /\ t1 \in StandingInserts /\ t2 \in StandingInserts
         /\ KeyOf(t1) # KeyOf(t2))
        => /\ Get(database, KeyOf(t1)) = Some(ValueOf(t1))
           /\ Get(database, KeyOf(t2)) = Some(ValueOf(t2))

C2_BothRendered ==
    \A t \in Tasks : Renders(t) =>
        \A t1, t2 \in StandingInserts :
            KeyOf(t1) # KeyOf(t2) =>
                /\ Shows(resp'[t].body, KeyOf(t1), ValueOf(t1)) = 1
                /\ Shows(resp'[t].body, KeyOf(t2), ValueOf(t2)) = 1

\* C2: no update is lost; the database holds, and every table shows, both
\* standing inserts of different keys.
C2_NoLostUpdate == [](C2_BothStored) /\ [][C2_BothRendered]_vars

\* Both inserts have responded, each with a table, and the one that
\* rendered last shows both entries.
C2_Witness ==
    \E t1, t2 \in Tasks :
        /\ Responded(t1) /\ Responded(t2)
        /\ t1 \in StandingInserts /\ t2 \in StandingInserts
        /\ KeyOf(t1) = "a" /\ KeyOf(t2) = "b"
        /\ Shows(resp[t2].body, "a", ValueOf(t1)) = 1
        /\ Shows(resp[t2].body, "b", ValueOf(t2)) = 1
        /\ Shows(resp[t1].body, "b", ValueOf(t2)) = 0

(***************************************************************************)
(* C3.  Last write wins: a table rendered after inserts, with no delete    *)
(* since, shows every inserted key in exactly one row, with the value of   *)
(* the last insert of that key that took effect.                           *)
(***************************************************************************)
C3_Rendered ==
    \A t \in Tasks : Renders(t) =>
        \A k \in DOMAIN written :
            /\ ShowsKey(resp'[t].body, k) = 1
            /\ Shows(resp'[t].body, k, written[k]) = 1

\* C3: every table shows each inserted key once, with the last value.
C3_LastWriteWins == [][C3_Rendered]_vars

\* An insert of a key has been overwritten by a later insert of another
\* value, and a table rendered since shows the later value only.
C3_Witness ==
    \E t, u \in Tasks :
        /\ IsInsert(u) /\ effect[u] = "overwritten"
        /\ KeyOf(u) \in DOMAIN written /\ written[KeyOf(u)] # ValueOf(u)
        /\ Responded(t)
        /\ Shows(resp[t].body, KeyOf(u), written[KeyOf(u)]) = 1
        /\ Shows(resp[t].body, KeyOf(u), ValueOf(u)) = 0

(***************************************************************************)
(* C4.  The table in the 200 response to an Insert(k, v) contains the      *)
(* entry (k, v), and the table in the 200 response to a Delete(k) contains *)
(* no entry for k, under every interleaving with other requests.           *)
(***************************************************************************)
C4_PostMutation ==
    \A t \in Tasks : Responded(t) =>
        /\ IsInsert(t) => Shows(resp[t].body, KeyOf(t), ValueOf(t)) = 1
        /\ IsDelete(t) => ShowsKey(resp[t].body, KeyOf(t)) = 0

(***************************************************************************)
(* The requests of the one-at-a-time client: trail[3] is the request being *)
(* handled, trail[2] and trail[1] the two before it.                       *)
(***************************************************************************)
\* The last three requests were Insert(k, _), Delete(k) and a list, and
\* task t has returned the response to the list.
RoundTrip(t, k) ==
    /\ Responded(t)
    /\ trail[3].op = <<"iter">>
    /\ trail[2].op = <<"remove", k>>
    /\ trail[1].op[1] = "insert" /\ trail[1].op[2] = k

\* The fields of a request body, read off the body itself.
Has(b, name) == \E i \in DOMAIN b : b[i][1] = name
Field(b, name) == b[CHOOSE i \in DOMAIN b : b[i][1] = name][2]
ActionIs(b, a) == Has(b, "action") /\ Field(b, "action") = a

\* Task t handles a request and has not left the steps before any lock:
\* it reads the body or has returned, the database is as the request found
\* it, and the Mutex is free.
Untouched(t) ==
    /\ pc[t] \in {"to_bytes", "done"}
    /\ ~locked
    /\ database = trail[3].before

\* Task t has returned exactly this status and text.
Returned(t, status, text) ==
    pc[t] = "done" => resp[t] = Ok(status, <<text>>)

(***************************************************************************)
(* C5 (as claimed).  Insert(k, v), Delete(k), then a list, with no other   *)
(* request in between, shows for k what the database held for k before the *)
(* insert, whether or not it held an entry for k.                          *)
(***************************************************************************)
C5_RoundTripRestores ==
    \A t \in Tasks : \A k \in KeyStrings : RoundTrip(t, k) =>
        LET before == trail[1].before
        IN  IF k \in DOMAIN before
            THEN Shows(resp[t].body, k, before[k]) = 1
            ELSE ShowsKey(resp[t].body, k) = 0

(***************************************************************************)
(* C5 (amended).  Insert(k, v), Delete(k), then a list, with no other      *)
(* request in between, shows no entry for k; when the database held no     *)
(* entry for k before the insert, the database is back to what it was.     *)
(***************************************************************************)
C5_RoundTripRemoves ==
    \A t \in Tasks : \A k \in KeyStrings : RoundTrip(t, k) =>
        LET before == trail[1].before
        IN  /\ ShowsKey(resp[t].body, k) = 0
            /\ k \notin DOMAIN database
            /\ k \notin DOMAIN before => database = before

\* The round trip on a key the database did not hold, beside another entry.
C5_Witness ==
    \E t \in Tasks :
        /\ RoundTrip(t, "a")
        /\ trail[1].before = [k \in {"b"} |-> "2"]
        /\ Shows(resp[t].body, "b", "2") = 1

(***************************************************************************)
(* C6.  Once a Delete(k) has taken effect, and until an insert of k takes  *)
(* effect, the database holds no entry for k and no table shows k, whether *)
(* or not k was there before; a delete of an absent key leaves the         *)
(* database as it was (so a second Delete(k) changes nothing), and every   *)
(* response to a Delete with a key is a 200.                               *)
(***************************************************************************)
StandingDeletes == {t \in Tasks : IsDelete(t) /\ effect[t] = "applied"}

C6_Deleted ==
    /\ \A t \in StandingDeletes : KeyOf(t) \notin DOMAIN database
    /\ \A t \in Tasks :
          (IsDelete(t) /\ pc[t] = "done" /\ resp[t].result = "Ok")
          => resp[t].status = OK

C6_Step ==
    \A t \in Tasks :
        /\ (pc[t] = "remove" /\ pc'[t] = "lock_iter") =>
              /\ KeyOf(t) \notin DOMAIN database'
              /\ KeyOf(t) \notin DOMAIN database => database' = database
        /\ Renders(t) =>
              \A u \in StandingDeletes : ShowsKey(resp'[t].body, KeyOf(u)) = 0

\* C6: a deleted key stays out of the database and of every table, and a
\* delete of an absent key changes nothing.
C6_DeleteIdempotent == [](C6_Deleted) /\ [][C6_Step]_vars

\* A second Delete of the same key followed the first with no insert in
\* between, beside another entry, and has returned its 200.
C6_Witness ==
    \E t, u \in Tasks :
        /\ IsDelete(t) /\ IsDelete(u) /\ KeyOf(t) = KeyOf(u)
        /\ effect[u] = "removed" /\ effect[t] = "applied"
        /\ Responded(t) /\ Responded(u)
        /\ database # EmptyMap
        /\ ShowsKey(resp[t].body, KeyOf(t)) = 0

(***************************************************************************)
(* C7.  A request that fails validation returns 422 with the text of the   *)
(* missing field, never waits for or holds the lock, and leaves the        *)
(* database as it found it: action=POST without key ("Missing 'key'        *)
(* field"), action=POST with key and without value ("Missing 'value'       *)
(* field"), action=DELETE without key ("Missing 'key' field").             *)
(***************************************************************************)
C7_ValidationFailure ==
    \A t \in Tasks : pc[t] # "idle" =>
        LET b == body[t]
        IN  /\ (ActionIs(b, "POST") /\ ~Has(b, "key")) =>
                  Untouched(t) /\ Returned(t, 422, "Missing 'key' field")
            /\ (ActionIs(b, "POST") /\ Has(b, "key") /\ ~Has(b, "value")) =>
                  Untouched(t) /\ Returned(t, 422, "Missing 'value' field")
            /\ (ActionIs(b, "DELETE") /\ ~Has(b, "key")) =>
                  Untouched(t) /\ Returned(t, 422, "Missing 'key' field")

\* A DELETE without key has been rejected on a database that holds entries.
C7_Witness ==
    \E t \in Tasks :
        /\ pc[t] = "done"
        /\ body[t] = MkBody(Some("DELETE"), None, Some("1"))
        /\ resp[t].status = 422
        /\ DOMAIN database = {"a", "b"}

(***************************************************************************)
(* C8.  A request with action=PUT returns 405 "Only supports POST, GET,    *)
(* and DELETE" whatever key and value it carries; it is not rejected with  *)
(* 422, never touches the database and never renders the table.            *)
(***************************************************************************)
C8_PutNotAllowed ==
    \A t \in Tasks : pc[t] # "idle" =>
        (ActionIs(body[t], "PUT") =>
            /\ Untouched(t)
            /\ Returned(t, 405, "Only supports POST, GET, and DELETE"))

\* A PUT with key and value has been answered on a database with entries.
C8_Witness ==
    \E t \in Tasks :
        /\ pc[t] = "done"
        /\ body[t] = MkBody(Some("PUT"), Some("a"), Some("1"))
        /\ resp[t].status = 405
        /\ database = [k \in {"b"} |-> "1"]

(***************************************************************************)
(* C9.  A request whose action is present and is not exactly GET, POST,    *)
(* PUT or DELETE (lower case and the empty string included) returns 422    *)
(* "Incorrect value for parameter 'action'" whether or not key and value   *)
(* are present, and leaves the database as it found it.                    *)
(***************************************************************************)
C9_IncorrectAction ==
    \A t \in Tasks : pc[t] # "idle" =>
        ((/\ Has(body[t], "action")
          /\ Field(body[t], "action") \notin {"GET", "POST", "PUT", "DELETE"})
         => /\ Untouched(t)
            /\ Returned(t, 422, "Incorrect value for parameter 'action'"))

\* Both a lower-case action with key and value and an empty action without
\* them are among the requests; the first has been rejected.
C9_Witness ==
    \E t \in Tasks :
        /\ pc[t] = "done"
        /\ body[t] = MkBody(Some("get"), Some("a"), Some("1"))
        /\ resp[t].status = 422
        /\ trail[2].op = <<"return">>
        /\ database # EmptyMap

(***************************************************************************)
(* C10.  A request whose action is absent or exactly GET is a list: it     *)
(* never waits to insert or remove, returns 200 with the table of the      *)
(* database, and leaves the database as it found it, whatever key and      *)
(* value it carries.                                                       *)
(***************************************************************************)
C10_List ==
    \A t \in Tasks : pc[t] # "idle" =>
        ((~Has(body[t], "action") \/ ActionIs(body[t], "GET")) =>
            /\ pc[t] \in {"to_bytes", "lock_iter", "iter", "done"}
            /\ database = trail[3].before
            /\ pc[t] = "done" =>
                  /\ resp[t].result = "Ok" /\ resp[t].status = 200
                  /\ \A k \in KeyStrings :
                        IF k \in DOMAIN database
                        THEN /\ ShowsKey(resp[t].body, k) = 1
                             /\ Shows(resp[t].body, k, database[k]) = 1
                        ELSE ShowsKey(resp[t].body, k) = 0)

\* A list without action that carries a key and a value has returned the
\* table of a database that holds another value for that key.
C10_Witness ==
    \E t \in Tasks :
        /\ Responded(t)
        /\ body[t] = MkBody(None, Some("a"), Some("2"))
        /\ database = [k \in {"a"} |-> "1"]
        /\ Shows(resp[t].body, "a", "1") = 1

(***************************************************************************)
(* C11.  Every table returned is the complete database of one instant:     *)
(* the database does not change while a task iterates over it, and the     *)
(* table the task then returns shows exactly the entries the database      *)
(* holds, each once.                                                       *)
(***************************************************************************)
\* The text shows exactly the entries of the map, each in one row.
ShowsExactly(text, map) ==
    \A k \in KeyStrings :
        IF k \in DOMAIN map
        THEN ShowsKey(text, k) = 1 /\ Shows(text, k, map[k]) = 1
        ELSE ShowsKey(text, k) = 0

C11_Step ==
    \A t \in Tasks :
        /\ pc[t] = "iter" => database' = database
        /\ Renders(t) => ShowsExactly(resp'[t].body, database)

\* C11: a table never mixes entries of two states of the database.
C11_Snapshot == [][C11_Step]_vars

\* A task has iterated over one of two entries while another task waits
\* for the lock to remove an entry.
C11_Witness ==
    \E t, u \in Tasks :
        /\ pc[t] = "iter" /\ Len(acc[t]) = 1
        /\ DOMAIN database = {"a", "b"}
        /\ pc[u] = "lock_remove"

(***************************************************************************)
(* C12.  The lock is never held across a suspension point: whenever the    *)
(* Mutex is held, its holder is in the middle of the insert, the remove or *)
(* the iteration, so no task that reads a body or waits for the lock holds *)
(* it.                                                                     *)
(***************************************************************************)
Suspended == {"to_bytes"} \cup Waiting

C12_NoSuspensionWhileLocked ==
    /\ locked => \E t \in Tasks : pc[t] \in Critical
    /\ (\A t \in Tasks : pc[t] \in Suspended \cup {"idle", "done", "dropped"})
          => ~locked

\* One task holds the lock to insert while another reads its body.
C12_Witness ==
    \E t, u \in Tasks : locked /\ pc[t] = "insert" /\ pc[u] = "to_bytes"

(***************************************************************************)
(* C13.  A handler abandoned at a suspension point leaves the database     *)
(* either untouched by its request or with its one insert or remove fully  *)
(* applied: the database changes only in the step of a task that has       *)
(* decoded its body and holds the lock, by exactly that task's insert or   *)
(* remove, and the step that abandons a task changes neither the database  *)
(* nor the lock.                                                           *)
(***************************************************************************)
PutAt(map, k, v) == [x \in (DOMAIN map) \cup {k} |-> IF x = k THEN v ELSE map[x]]
DelAt(map, k) == [x \in (DOMAIN map) \ {k} |-> map[x]]

C13_Step ==
    /\ database' # database =>
          \E t \in Tasks :
              \/ /\ pc[t] = "insert" /\ pc'[t] = "lock_iter"
                 /\ database' = PutAt(database, Field(body[t], "key"),
                                      Field(body[t], "value"))
              \/ /\ pc[t] = "remove" /\ pc'[t] = "lock_iter"
                 /\ database' = DelAt(database, Field(body[t], "key"))
    /\ \A t \in Tasks :
          (pc[t] \in Suspended /\ pc'[t] = "dropped") =>
              database' = database /\ locked' = locked

C13_Inv ==
    \A t \in Tasks :
        /\ pc[t] \in {"to_bytes", "lock_insert", "lock_remove"} =>
              effect[t] = "none"
        /\ (pc[t] = "lock_iter" /\ ActionIs(body[t], "POST")) =>
              effect[t] # "none"

\* C13: abandonment leaves no partial mutation.
C13_AbandonAtomic == [](C13_Inv) /\ [][C13_Step]_vars

\* A task has been abandoned while another, whose insert is applied, holds
\* the lock to render.
C13_Witness ==
    \E t, u \in Tasks :
        /\ pc[t] = "dropped"
        /\ pc[u] = "iter" /\ IsInsert(u) /\ effect[u] = "applied"
        /\ Get(database, KeyOf(u)) = Some(ValueOf(u))

(***************************************************************************)
(* C14.  Dispatch ignores the HTTP method: a request with the same body as *)
(* the request before it, sent to the same database with another HTTP      *)
(* method, gets the same status and the same text (the same rows, in the   *)
(* order the map yields them) and leaves the same database.                *)
(***************************************************************************)
\* Two documents with the same rows, whatever their order.
SameRows(x, y) ==
    /\ Len(x) = Len(y)
    /\ \A k \in KeyStrings : \A v \in ValueStrings :
          Shows(x, k, v) = Shows(y, k, v)

\* Task t has answered the same body on the same database as the request
\* before it, which came with another HTTP method.
Replayed(t) ==
    /\ pc[t] = "done"
    /\ last.verb # ""
    /\ verb[t] # last.verb
    /\ body[t] = last.body
    /\ trail[3].before = last.before

C14_MethodIgnored ==
    \A t \in Tasks : Replayed(t) =>
        /\ resp[t].result = last.resp.result
        /\ resp[t].status = last.resp.status
        /\ IF resp[t].status = 200
           THEN SameRows(resp[t].body, last.resp.body)
           ELSE resp[t].body = last.resp.body
        /\ database = last.after

\* A body without action has been answered twice on the same database with
\* two entries, once sent with DELETE and once with POST.
C14_Witness ==
    \E t \in Tasks :
        /\ Replayed(t)
        /\ body[t] = MkBody(None, None, None)
        /\ verb[t] = "DELETE" /\ last.verb = "POST"
        /\ DOMAIN database = {"a", "b"}
        /\ resp[t].status = 200

(***************************************************************************)
(* C15.  The table of every 200 response has exactly one delete-row per    *)
(* entry of the database, with that entry's key and value and              *)
(* action=DELETE, no key in two rows, followed by exactly one blank        *)
(* insert-row with action=POST; for an empty database it has the insert    *)
(* row alone.  make_row interpolates keys and values as they are, so the   *)
(* count covers every row opening in the text, those a stored value        *)
(* carries included.                                                       *)
(***************************************************************************)
RowStart == "<tr><form method=\"POST\">"

DeleteRow(k, v) ==
    <<RowStart,
      "<td>", "<input type=\"hidden\", name=\"key\" value=\"", k, "\">", k,
      "</td>",
      "<td>", v, "</td>",
      "<td><input type=\"submit\" value=\"", "Delete", "\"></td>",
      "<input type=\"hidden\" name=\"action\" value=\"", "DELETE",
      "\"></form></tr>">>

InsertRow ==
    <<RowStart,
      "<td>", "<input type=\"text\" name=\"key\">", "</td>",
      "<td>", "<input type=\"text\" name=\"value\">", "</td>",
      "<td><input type=\"submit\" value=\"", "Insert", "\"></td>",
      "<input type=\"hidden\" name=\"action\" value=\"", "POST",
      "\"></form></tr>">>

C15_TableShape ==
    \A t \in Tasks : Responded(t) =>
        LET text == resp[t].body
            n == Cardinality(DOMAIN database)
        IN  /\ Count(text, <<RowStart>>) = n + 1
            /\ \A k \in DOMAIN database :
                  /\ Count(text, DeleteRow(k, database[k])) = 1
                  /\ ShowsKey(text, k) = 1
            /\ \A k \in KeyStrings \ DOMAIN database : ShowsKey(text, k) = 0
            /\ Count(text, InsertRow) = 1
            /\ StartsAt(text, Len(text) - Len(InsertRow), InsertRow)
            /\ text[1] = "<html><body><table>"
            /\ text[Len(text)] = "</table></body></html>"
            /\ Len(text) = 2 + n * Len(DeleteRow("a", "1")) + Len(InsertRow)

(***************************************************************************)
(* C16.  A handler takes the lock only when it does not hold it; the one   *)
(* lock never leaves a waiting task with nobody able to release it; and    *)
(* under fair hand-over of the lock every request that has read its body   *)
(* and is not abandoned produces its response.                             *)
(***************************************************************************)
InFlight == Waiting \cup Critical

C16_NoNestedLock ==
    \A t \in Tasks :
        (pc[t] \notin Critical /\ pc'[t] \in Critical) =>
            /\ pc[t] \in Waiting
            /\ ~locked /\ locked'
            /\ \A u \in Tasks : pc[u] \notin Critical

C16_NoDeadlock ==
    (\E t \in Tasks : pc[t] \in Waiting) =>
        \/ ~locked
        \/ \E u \in Tasks : pc[u] \in Critical

\* C16: no nested acquisition, no deadlock, and every request in flight is
\* answered or abandoned.
C16_Responds ==
    /\ [](C16_NoDeadlock)
    /\ [][C16_NoNestedLock]_vars
    /\ \A t \in Tasks :
          (pc[t] \in InFlight) ~> (pc[t] = "done" \/ pc[t] = "dropped")

\* An insert has taken the lock twice and has been answered, next to a
\* task that was abandoned.
C16_Witness ==
    \E t, u \in Tasks :
        /\ Responded(t) /\ IsInsert(t)
        /\ pc[u] = "dropped"

(***************************************************************************)
(* C17.  An insert or a remove changes the entry of its key only: every    *)
(* other key maps to the same value, or to none, before and after.  An     *)
(* insert takes an empty key or an empty value as present and stores it;   *)
(* only a field that is absent is rejected.                                *)
(***************************************************************************)
C17_Frame ==
    \A t \in Tasks :
        (pc[t] \in {"insert", "remove"} /\ pc'[t] = "lock_iter") =>
            \A k \in ((DOMAIN database) \cup (DOMAIN database'))
                        \ {Field(body[t], "key")} :
                Get(database', k) = Get(database, k)

C17_EmptyIsPresent ==
    \A t \in Tasks : (pc[t] = "done" /\ ActionIs(body[t], "POST")) =>
        IF Has(body[t], "key") /\ Has(body[t], "value")
        THEN /\ resp[t].status = 200
             /\ Get(database, Field(body[t], "key"))
                   = Some(Field(body[t], "value"))
        ELSE resp[t].status = 422 /\ database = trail[3].before

\* C17: mutations touch one key only, and empty strings are stored.
C17_FrameAndEmpty == [](C17_EmptyIsPresent) /\ [][C17_Frame]_vars

\* An insert of the empty key has been answered with a table, and the
\* database holds it beside an entry whose value is empty.
C17_Witness ==
    \E t \in Tasks :
        /\ Responded(t)
        /\ body[t] = MkBody(Some("POST"), Some(""), Some("1"))
        /\ trail[3].before = [k \in {"a"} |-> ""]
        /\ database = [k \in {"", "a"} |-> IF k = "" THEN "1" ELSE ""]

(***************************************************************************)
(* C18.  For action=POST the key is checked before the value: a request    *)
(* without key and without value returns 422 "Missing 'key' field", and    *)
(* "Missing 'value' field" is returned only to a POST with a key and       *)
(* without a value.                                                        *)
(***************************************************************************)
C18_KeyBeforeValue ==
    \A t \in Tasks : pc[t] = "done" =>
        /\ (/\ ActionIs(body[t], "POST")
            /\ ~Has(body[t], "key") /\ ~Has(body[t], "value"))
           => resp[t] = Ok(422, <<"Missing 'key' field">>)
        /\ resp[t].body = <<"Missing 'value' field">>
           => /\ ActionIs(body[t], "POST")
              /\ Has(body[t], "key") /\ ~Has(body[t], "value")
              /\ resp[t].status = 422

\* A POST with neither key nor value has been told that the key is missing.
C18_Witness ==
    \E t \in Tasks :
        /\ pc[t] = "done"
        /\ body[t] = MkBody(Some("POST"), None, None)
        /\ resp[t].body = <<"Missing 'key' field">>

====
